---------------------------- MODULE Spec2Model ----------------------------
(***************************************************************************)
(* A model of jtoa (src/jtoa.c): JPEG to ASCII conversion.                 *)
(*                                                                         *)
(* The program state is the set of option globals (auto_width,             *)
(* auto_height, width, height, invert, flipx, flipy, ascii_palette), the   *)
(* function-local static lasty of process_scanline, the Image of the       *)
(* decompress call in progress, the decoder's header and scanline counter, *)
(* the text written to standard output and the exit status.                *)
(*                                                                         *)
(* float values are modelled as exact rationals <<n, d>> with d > 0, kept  *)
(* in lowest terms; d = 0 stands for the non-finite values of IEEE         *)
(* arithmetic: <<1, 0>> is +inf, <<-1, 0>> is -inf and <<0, 0>> is NaN.    *)
(* The conversion of a non-finite float to int is undefined behaviour and  *)
(* is a choice among the values builds produce (NanToInt, InfToInt).       *)
(***************************************************************************)
EXTENDS Integers, Sequences, FiniteSets, TLC

(***************************************************************************)
(* Bounds of the model.                                                    *)
(***************************************************************************)
MaxDstW == 2        \* destination widths 1 .. MaxDstW
MaxDstH == 4        \* destination heights 1 .. MaxDstH
MaxSrcW == 2        \* source widths 1 .. MaxSrcW
MaxSrcH == 4        \* source heights 1 .. MaxSrcH
MaxDim == 1         \* --width=N and --height=N with N in 0 .. MaxDim
MaxFlags == 3       \* at most MaxFlags sizing flags
MaxOperands == 3    \* at most MaxOperands arguments after the size

(***************************************************************************)
(* Program constants.                                                      *)
(***************************************************************************)
INT_MAX == 2147483647
INT_MIN == (-2147483647) - 1
MAXJSAMPLE == 255
DefaultWidth == 78
DefaultHeight == 0

\* const char* default_palette = "   ...',;:clodxkO0KXNWM";
default_palette ==
    << " ", " ", " ", ".", ".", ".", "'", ",", ";", ":", "c", "l", "o", "d",
       "x", "k", "O", "0", "K", "X", "N", "W", "M" >>

(***************************************************************************)
(* float arithmetic.                                                       *)
(***************************************************************************)
Abs(a) == IF a < 0 THEN -a ELSE a

RECURSIVE Gcd(_, _)
Gcd(a, b) == IF b = 0 THEN a ELSE Gcd(b, a % b)

\* the rational n/d (d # 0) in lowest terms with a positive denominator
Rat(n, d) ==
    LET g == Gcd(Abs(n), Abs(d))
        s == IF d < 0 THEN -1 ELSE 1
    IN  << s * (n \div g), s * (d \div g) >>

Sign(a) == IF a > 0 THEN 1 ELSE IF a < 0 THEN -1 ELSE 0
NaN == << 0, 0 >>
Zero == << 0, 1 >>
Half == << 1, 2 >>
IsFinite(f) == f[2] # 0
FromInt(a) == << a, 1 >>

\* f + g
FAdd(f, g) ==
    IF IsFinite(f) /\ IsFinite(g)
      THEN Rat(f[1] * g[2] + g[1] * f[2], f[2] * g[2])
      ELSE IF IsFinite(f) THEN g
      ELSE IF IsFinite(g) THEN f
      ELSE IF f = g THEN f ELSE NaN

\* f * g
FMul(f, g) ==
    IF IsFinite(f) /\ IsFinite(g)
      THEN Rat(f[1] * g[1], f[2] * g[2])
      ELSE << Sign(f[1]) * Sign(g[1]), 0 >>

\* f / g
FDiv(f, g) ==
    IF IsFinite(f) /\ IsFinite(g)
      THEN IF g[1] # 0 THEN Rat(f[1] * g[2], f[2] * g[1])
                       ELSE << Sign(f[1]), 0 >>
      ELSE IF IsFinite(g) THEN << f[1] * (IF g[1] < 0 THEN -1 ELSE 1), 0 >>
      ELSE IF IsFinite(f) THEN Zero
      ELSE NaN

\* (int) f for a finite f: truncation toward zero
Trunc(f) ==
    IF f[1] >= 0 THEN f[1] \div f[2] ELSE -((-f[1]) \div f[2])

\* (int) NaN and (int) +-inf are undefined: x86 yields INT_MIN for both,
\* AArch64 yields 0 for NaN and saturates, RISC-V yields INT_MAX for NaN.
NanToInt == { INT_MIN, 0, INT_MAX }
InfToInt(s) == IF s > 0 THEN { INT_MIN, INT_MAX } ELSE { INT_MIN }

\* the values (int) f can take
ToInt(f) ==
    IF IsFinite(f) THEN { Trunc(f) }
    ELSE IF f[1] = 0 THEN NanToInt ELSE InfToInt(f[1])

\* #define ROUND(x) (int) ( 0.5f + x )
ROUND(x) == ToInt(FAdd(Half, x))

\* ROUND of a finite value
RoundFin(x) == Trunc(FAdd(Half, x))

(***************************************************************************)
(* The decoder's input: a source image is its header (output_width,        *)
(* output_height, output_components) and its 8-bit samples.  A uniform     *)
(* image holds the sample v everywhere; a ramp image holds a different     *)
(* sample at every row, column and component.                              *)
(***************************************************************************)
Img(w, h, comps, kind, v) ==
    [ output_width |-> w, output_height |-> h, output_components |-> comps,
      kind |-> kind, v |-> v ]

NoImg == Img(0, 0, 0, "none", 0)

Sample(img, row, col, c) ==
    IF img.kind = "uniform" THEN img.v
    ELSE (img.v + 60 * row + 25 * col + 7 * c) % (MAXJSAMPLE + 1)

\* buffer[0] after jpeg_read_scanlines has read source row `row` (0-based):
\* row_stride = output_width * output_components samples
Scanline(img, row) ==
    [ k \in 1 .. img.output_width * img.output_components |->
        Sample(img, row, (k - 1) \div img.output_components,
               (k - 1) % img.output_components) ]

RECURSIVE SumSamples(_, _, _)
SumSamples(source, off, c) ==
    IF c = 0 THEN 0 ELSE SumSamples(source, off, c - 1) + source[off + c]

\* intensity(&scanline[off], components): off is a 0-based offset
intensity(source, off, components) ==
    FDiv(FromInt(SumSamples(source, off, components)),
         FromInt(MAXJSAMPLE * components))

(***************************************************************************)
(* calc_aspect_ratio: the new (width, height) from the current globals.    *)
(***************************************************************************)
\* calc_aspect_ratio without the loops that adjust for too small dimensions
calc_aspect_ratio_once(aw, ah, w, h, jpeg_width, jpeg_height) ==
    IF aw # 0 /\ ah = 0
      THEN [ width |-> RoundFin(FDiv(FMul(FMul(FromInt(2), FromInt(h)),
                                          FromInt(jpeg_width)),
                                     FromInt(jpeg_height))),
             height |-> h ]
    ELSE IF aw = 0 /\ ah # 0
      THEN [ width |-> w,
             height |-> RoundFin(FDiv(FMul(FMul(Half, FromInt(w)),
                                           FromInt(jpeg_height)),
                                      FromInt(jpeg_width))) ]
    ELSE [ width |-> w, height |-> h ]

RECURSIVE calc_aspect_ratio(_, _, _, _, _, _)
calc_aspect_ratio(aw, ah, w, h, jpeg_width, jpeg_height) ==
    IF aw # 0 /\ ah = 0
      THEN LET nw == RoundFin(FDiv(FMul(FMul(FromInt(2), FromInt(h)),
                                          FromInt(jpeg_width)),
                                     FromInt(jpeg_height)))
           IN  IF nw = 0
                 THEN calc_aspect_ratio(aw, ah, nw, h + 1, jpeg_width, jpeg_height)
                 ELSE [ width |-> nw, height |-> h ]
    ELSE IF aw = 0 /\ ah # 0
      THEN LET nh == RoundFin(FDiv(FMul(FMul(Half, FromInt(w)),
                                          FromInt(jpeg_height)),
                                     FromInt(jpeg_width)))
           IN  IF nh = 0
                 THEN calc_aspect_ratio(aw, ah, w + 1, nh, jpeg_width, jpeg_height)
                 ELSE [ width |-> w, height |-> nh ]
    ELSE [ width |-> w, height |-> h ]

(***************************************************************************)
(* The Image of one decompress call.                                       *)
(***************************************************************************)
NoImage ==
    [ width |-> 0, height |-> 0, pixel |-> << >>, yadds |-> << >>,
      resize_y |-> Zero, resize_x |-> Zero, lookup_resx |-> << >> ]

Max0(a) == IF a < 0 THEN 0 ELSE a

\* malloc(size): a request that is negative as an int is huge as a size_t and
\* fails; malloc(0) may return NULL or a pointer; any request may fail.
MallocOk(size) == IF size < 0 THEN { FALSE } ELSE { TRUE, FALSE }

\* malloc_image followed by clear: the arrays zeroed
malloc_image(w, h) ==
    [ NoImage EXCEPT !.width = w, !.height = h,
                     !.pixel = [ k \in 1 .. Max0(w) * Max0(h) |-> Zero ],
                     !.yadds = [ k \in 1 .. Max0(h) |-> 0 ],
                     !.lookup_resx = [ k \in 1 .. Max0(w) |-> 0 ] ]

\* lookup_resx[dst_x] = (int)((float) dst_x * resize_x) * out_color_components
lookup(dst_x, resize_x, comps) ==
    Trunc(FMul(FromInt(dst_x), resize_x)) * comps

init_image(i, img) ==
    LET ry == FDiv(FromInt(i.height - 1), FromInt(img.output_height - 1))
        rx == FDiv(FromInt(img.output_width), FromInt(i.width))
    IN  [ i EXCEPT !.resize_y = ry, !.resize_x = rx,
                   !.lookup_resx = [ k \in 1 .. Max0(i.width) |->
                                       lookup(k - 1, rx, img.output_components) ] ]

(***************************************************************************)
(* process_scanline.                                                       *)
(***************************************************************************)
\* y computed with (int) in place of ROUND
DestRowTruncated(i, output_scanline) ==
    ToInt(FMul(i.resize_y, FromInt(output_scanline - 1)))

\* the values of y = ROUND(resize_y * (float)(output_scanline - 1))
DestRow(i, output_scanline) ==
    ROUND(FMul(i.resize_y, FromInt(output_scanline - 1)))

\* the rows visited when lasty is incremented before it is used
RowsInsideAfterFirst(i, from, to) ==
    { r \in 0 .. i.height - 1 : from < r /\ r <= to }

\* the rows the while loop visits: lasty, lasty + 1, ..., y
\* the part of them inside the arrays
RowsInside(i, from, to) == { r \in 0 .. i.height - 1 : from <= r /\ r <= to }

\* some visited row lies outside pixel and yadds
WritesOutside(i, from, to) ==
    from <= to /\ (from < 0 \/ to > i.height - 1)

\* the loop runs from or to a row  2^31 rows away from the arrays
WritesFar(i, from, to) ==
    from <= to /\ (from = INT_MIN \/ to = INT_MAX)

\* the Image after the loop has visited the rows from .. to with `scanline`
Accumulate(i, scanline, comps, from, to) ==
    LET rows == RowsInside(i, from, to)
    IN  [ i EXCEPT
            !.pixel = [ k \in 1 .. Len(i.pixel) |->
                          IF ((k - 1) \div i.width) \in rows
                            THEN FAdd(i.pixel[k],
                                      intensity(scanline,
                                                i.lookup_resx[((k - 1) % i.width) + 1],
                                                comps))
                            ELSE i.pixel[k] ],
            !.yadds = [ r \in 1 .. Len(i.yadds) |->
                          IF (r - 1) \in rows THEN i.yadds[r] + 1
                                              ELSE i.yadds[r] ] ]

(***************************************************************************)
(* normalize and print_image.                                              *)
(***************************************************************************)
normalize(i) ==
    [ i EXCEPT
        !.pixel = [ k \in 1 .. Len(i.pixel) |->
                      LET y == (k - 1) \div i.width
                      IN  IF i.yadds[y + 1] # 0
                            THEN FDiv(i.pixel[k], FromInt(i.yadds[y + 1]))
                            ELSE i.pixel[k] ] ]

\* the index computed from strlen(ascii_palette) in place of chars
PaletteIndexFromLength(cell, chars, inv) ==
    LET pos == RoundFin(FMul(FromInt(chars), cell))
    IN  IF inv = 0 THEN chars + 1 - pos ELSE pos

\* int pos = ROUND((float) chars * intensity); the index !invert ? chars - pos : pos
PaletteIndex(cell, chars, inv) ==
    LET pos == RoundFin(FMul(FromInt(chars), cell))
    IN  IF inv = 0 THEN chars - pos ELSE pos

\* ascii_palette[index]: the buffer holds the string and then zero bytes
PaletteChar(palette, index) ==
    IF index \in 0 .. Len(palette) - 1 THEN palette[index + 1] ELSE "\\0"

\* the cell read with the test of flipy inverted
SourceCellInverted(i, fy, y, x) ==
    i.pixel[(IF fy # 0 THEN y ELSE i.height - y - 1) * i.width + x + 1]

\* the cell print_image reads for output row y, loop column x
SourceCell(i, fy, y, x) ==
    i.pixel[(IF fy = 0 THEN y ELSE i.height - y - 1) * i.width + x + 1]

\* the loop column x whose character lands at position p of the line
ColumnAt(w, fx, p) == IF fx = 0 THEN p ELSE w - p - 1

\* the lines print_image writes, top to bottom
print_image(i, chars, palette, inv, fx, fy) ==
    [ y1 \in 1 .. Max0(i.height) |->
        [ p1 \in 1 .. Max0(i.width) |->
            PaletteChar(palette,
                        PaletteIndex(SourceCell(i, fy, y1 - 1,
                                                ColumnAt(i.width, fx, p1 - 1)),
                                     chars, inv)) ] ]

(***************************************************************************)
(* Command-line arguments.  argv[1 .. argc-1] is a sequence of tokens:     *)
(*   "file"   a path fopen opens, holding the image img                    *)
(*   "nofile" a path fopen cannot open                                     *)
(*   "stdin"  the operand "-", standard input holding the image img        *)
(*   "width"  --width=a      "height" --height=a     "size" --size=axb     *)
(*   "chars"  --chars=s      "invert", "flipx", "flipy", "verbose", "help" *)
(*   "unknown" any other argument that starts with '-'                     *)
(***************************************************************************)
Tok(t, a, b, img, s) == [ t |-> t, a |-> a, b |-> b, img |-> img, s |-> s ]
Flag(t) == Tok(t, 0, 0, NoImg, << >>)
OptWidth(a) == Tok("width", a, 0, NoImg, << >>)
OptHeight(a) == Tok("height", a, 0, NoImg, << >>)
OptSize(a, b) == Tok("size", a, b, NoImg, << >>)
OptChars(s) == Tok("chars", 0, 0, NoImg, s)
File(img) == Tok("file", 0, 0, img, << >>)
Stdin(img) == Tok("stdin", 0, 0, img, << >>)
NoFile == Flag("nofile")

\* *s != '-', or s is "-": counted as a file by parse_options
IsOperand(tok) == tok.t \in { "file", "nofile", "stdin" }

VARIABLES
    argv,           \* argv[1 .. argc-1]
    pc,             \* where the program is
    n,              \* the loop index of parse_options, then of main
    files,          \* parse_options: files counted so far
    auto_height, auto_width, width, height,
    invert, flipx, flipy, verbose,
    ascii_palette,
    lasty,          \* static int lasty of process_scanline
    jpg,            \* the decoder: [img, output_scanline]
    image,          \* Image image of decompress
    printed,        \* standard output: one entry [arg, lines] per print_image
    status,         \* the exit status, -1 while the process runs
    hist            \* history of the current decompress call

vars == << argv, pc, n, files, auto_height, auto_width, width, height,
           invert, flipx, flipy, verbose, ascii_palette, lasty, jpg, image,
           printed, status, hist >>

opts == << auto_height, auto_width, width, height, invert, flipx, flipy,
           verbose, ascii_palette >>

NoJpg == [ img |-> NoImg, output_scanline |-> 0 ]

\* hist: the globals width and height on entry to calc_aspect_ratio, the
\* value of lasty on entry to decompress, whether the arrays are allocated,
\* whether a write went outside them, and the Image print_image was given
NoHist ==
    [ reqw |-> 0, reqh |-> 0, lasty0 |-> 0, allocated |-> FALSE,
      outside |-> FALSE, shown |-> NoImage ]

\* the globals as initialised, and after strcpy(ascii_palette, default_palette)
InitWith(args) ==
    /\ argv = args
    /\ pc = "parse"
    /\ n = 1
    /\ files = 0
    /\ verbose = 0
    /\ auto_height = 1
    /\ auto_width = 0
    /\ width = DefaultWidth
    /\ height = DefaultHeight
    /\ invert = 0
    /\ flipx = 0
    /\ flipy = 0
    /\ ascii_palette = default_palette
    /\ lasty = 0
    /\ jpg = NoJpg
    /\ image = NoImage
    /\ printed = << >>
    /\ status = -1
    /\ hist = NoHist

\* the process ends at `at` with exit status `code`:
\*   "return_parse"  main returns the result of parse_options (line 298)
\*   "return"        main returns from or after its loop (lines 323-330)
\*   "exit"          exit(1) in malloc_image
\*   "killed"        the process is killed by a signal
Stop(at, code) ==
    /\ pc' = at
    /\ status' = code

(***************************************************************************)
(* parse_options: one iteration of the loop over argv.  The test           *)
(* strlen(s-8) > ASCII_PALETTE_SIZE of --chars reads the 8 bytes before    *)
(* the argument, which end with the terminator of the previous one: it     *)
(* never holds, and the palettes here are shorter than the buffer.         *)
(***************************************************************************)
parse_options_arg ==
    /\ pc = "parse"
    /\ n <= Len(argv)
    /\ LET tok == argv[n]
       IN  /\ IF tok.t = "help" THEN Stop("return_parse", 0)
              ELSE IF tok.t = "unknown" THEN Stop("return_parse", 1)
              ELSE /\ pc' = pc
                   /\ status' = status
           /\ n' = IF tok.t \in { "help", "unknown" } THEN n ELSE n + 1
           /\ files' = IF IsOperand(tok) THEN files + 1 ELSE files
           /\ verbose' = IF tok.t = "verbose" THEN 1 ELSE verbose
           /\ invert' = IF tok.t = "invert" THEN 1 ELSE invert
           /\ flipx' = IF tok.t = "flipx" THEN 1 ELSE flipx
           /\ flipy' = IF tok.t = "flipy" THEN 1 ELSE flipy
           /\ width' = IF tok.t \in { "width", "size" } THEN tok.a ELSE width
           /\ height' = IF tok.t = "height" THEN tok.a
                        ELSE IF tok.t = "size" THEN tok.b ELSE height
           /\ auto_height' = IF tok.t = "width" THEN auto_height + 1
                             ELSE IF tok.t = "size" THEN 0 ELSE auto_height
           /\ auto_width' = IF tok.t = "height" THEN auto_width + 1
                            ELSE IF tok.t = "size" THEN 0 ELSE auto_width
           /\ ascii_palette' = IF tok.t = "chars" THEN tok.s ELSE ascii_palette
    /\ UNCHANGED << argv, lasty, jpg, image, printed, hist >>

\* lines 98-103: the sizing mode decided from the two counters
ResolveAuto(aw, ah) ==
    LET ah1 == IF aw = 1 /\ ah = 1 THEN 0 ELSE ah
    IN  IF aw = 2 /\ ah1 = 1 THEN [ auto_width |-> 0, auto_height |-> 0 ]
                             ELSE [ auto_width |-> aw, auto_height |-> ah1 ]

\* line 109: the dimensions are rejected
InvalidSize(w, h, aw, ah) == (w < 1 /\ aw = 0) \/ (h < 1 /\ ah = 0)

(***************************************************************************)
(* parse_options after the loop, and main's test of its result.            *)
(***************************************************************************)
parse_options_end ==
    /\ pc = "parse"
    /\ n > Len(argv)
    /\ LET auto == ResolveAuto(auto_width, auto_height)
       IN  IF files = 0
             THEN /\ Stop("return_parse", 1)
                  /\ UNCHANGED << auto_width, auto_height >>
             ELSE /\ auto_width' = auto.auto_width
                  /\ auto_height' = auto.auto_height
                  /\ IF \/ Len(ascii_palette) < 2
                        \/ InvalidSize(width, height, auto.auto_width,
                                       auto.auto_height)
                       THEN Stop("return_parse", 1)
                       ELSE /\ pc' = "main"
                            /\ status' = status
    /\ n' = 1
    /\ UNCHANGED << argv, files, width, height, invert, flipx, flipy, verbose,
                    ascii_palette, lasty, jpg, image, printed, hist >>

(***************************************************************************)
(* main: one iteration of the loop over argv.                              *)
(***************************************************************************)
\* the loop is over: return 0
main_return ==
    /\ Stop("return", 0)
    /\ UNCHANGED << n, jpg, hist >>

\* an option: continue
main_skip ==
    /\ n' = n + 1
    /\ UNCHANGED << pc, status, jpg, hist >>

\* fopen returned NULL and the loop goes on with the next argument
main_skip_unopened ==
    /\ n' = n + 1
    /\ UNCHANGED << pc, status, jpg, hist >>

\* fopen returned NULL: "Can't open", return 1
main_cannot_open ==
    /\ Stop("return", 1)
    /\ UNCHANGED << n, jpg, hist >>

\* decompress(stdin) or decompress(fp) is entered: the decoder is created
\* and has read the header
main_decompress ==
    /\ pc' = "decompress"
    /\ jpg' = [ img |-> argv[n].img, output_scanline |-> 0 ]
    /\ hist' = [ NoHist EXCEPT !.lasty0 = lasty ]
    /\ UNCHANGED << n, status >>

main ==
    /\ pc = "main"
    /\ IF n > Len(argv) THEN main_return
       ELSE IF ~IsOperand(argv[n]) THEN main_skip
       ELSE IF argv[n].t = "nofile" THEN main_cannot_open
       ELSE main_decompress
    /\ UNCHANGED << argv, files, opts, lasty, image, printed >>

(***************************************************************************)
(* decompress, lines 269-277: calc_aspect_ratio, malloc_image, clear,      *)
(* init_image.                                                             *)
(***************************************************************************)
\* whether the three malloc calls of malloc_image all return memory
MallocImageOk(w, h) ==
    { a /\ b /\ c : a \in MallocOk(w * h), b \in MallocOk(h), c \in MallocOk(w) }

decompress_begin ==
    /\ pc = "decompress"
    /\ LET dims == calc_aspect_ratio(auto_width, auto_height, width, height,
                                      jpg.img.output_width, jpg.img.output_height)
       IN  /\ width' = dims.width
           /\ height' = dims.height
           /\ \E ok \in MallocImageOk(dims.width, dims.height) :
                IF ok
                  THEN /\ image' = init_image(malloc_image(dims.width, dims.height),
                                              jpg.img)
                       /\ hist' = [ hist EXCEPT !.reqw = width, !.reqh = height,
                                                !.allocated = TRUE ]
                       /\ pc' = "scan"
                       /\ status' = status
                  ELSE /\ image' = image
                       /\ hist' = [ hist EXCEPT !.reqw = width, !.reqh = height ]
                       /\ Stop("exit", 1)
    /\ UNCHANGED << argv, n, files, auto_height, auto_width, invert, flipx,
                    flipy, verbose, ascii_palette, lasty, jpg, printed >>

(***************************************************************************)
(* decompress, lines 279-282: jpeg_read_scanlines reads one row, then      *)
(* process_scanline.  A write outside pixel or yadds is undefined: the     *)
(* process is killed, or, when the rows are near the arrays, it may go on  *)
(* with other memory overwritten.                                          *)
(***************************************************************************)
SIGSEGV == 128 + 11

process_scanline ==
    /\ pc = "scan"
    /\ jpg.output_scanline < jpg.img.output_height
    /\ LET line == jpg.output_scanline + 1
           scanline == Scanline(jpg.img, line - 1)
       IN  /\ jpg' = [ jpg EXCEPT !.output_scanline = line ]
           /\ \E y \in DestRow(image, line) :
              \E killed \in IF WritesFar(image, lasty, y) THEN { TRUE }
                            ELSE IF WritesOutside(image, lasty, y) THEN BOOLEAN
                            ELSE { FALSE } :
                /\ hist' = [ hist EXCEPT !.outside =
                               hist.outside \/ WritesOutside(image, lasty, y) ]
                /\ IF killed
                     THEN /\ Stop("killed", SIGSEGV)
                          /\ UNCHANGED << image, lasty >>
                     ELSE /\ image' = Accumulate(image, scanline,
                                                 jpg.img.output_components,
                                                 lasty, y)
                          /\ lasty' = y
                          /\ UNCHANGED << pc, status >>
    /\ UNCHANGED << argv, n, files, opts, printed >>

\* line 283: normalize(&image) once the loop is over
decompress_normalize ==
    /\ pc = "scan"
    /\ jpg.output_scanline >= jpg.img.output_height
    /\ image' = normalize(image)
    /\ pc' = "print"
    /\ UNCHANGED << argv, n, files, opts, lasty, jpg, printed, status, hist >>

\* line 285: print_image(&image, (int) strlen(ascii_palette) - 1)
decompress_print ==
    /\ pc = "print"
    /\ printed' = Append(printed,
                         [ arg |-> n,
                           lines |-> print_image(image, Len(ascii_palette) - 1,
                                                 ascii_palette, invert, flipx,
                                                 flipy) ])
    /\ hist' = [ hist EXCEPT !.shown = image ]
    /\ pc' = "finish"
    /\ UNCHANGED << argv, n, files, opts, lasty, jpg, image, status >>

\* lines 287-292: free_image, jpeg_destroy_decompress, return 0; main goes on
\* with the next argument
decompress_end ==
    /\ pc = "finish"
    /\ image' = NoImage
    /\ jpg' = NoJpg
    /\ pc' = "main"
    /\ n' = n + 1
    /\ UNCHANGED << argv, files, opts, lasty, printed, status, hist >>

Next ==
    \/ parse_options_arg
    \/ parse_options_end
    \/ main
    \/ decompress_begin
    \/ process_scanline
    \/ decompress_normalize
    \/ decompress_print
    \/ decompress_end

(***************************************************************************)
(* The inputs: the argument vectors each specification starts from.        *)
(***************************************************************************)
SeqsUpTo(S, k) == UNION { [ 1 .. m -> S ] : m \in 0 .. k }

Components == { 1, 3 }

\* source images of every shape: uniform ones and ramps
Images ==
    { Img(w, h, c, "uniform", v) :
        w \in 1 .. MaxSrcW, h \in 1 .. MaxSrcH, c \in Components,
        v \in { 0, 100, MAXJSAMPLE } }
    \cup { Img(w, h, c, "ramp", 10) :
        w \in 1 .. MaxSrcW, h \in 1 .. MaxSrcH, c \in Components }

\* the images that come first in a batch of two
FirstImages == { Img(1, h, 1, "uniform", MAXJSAMPLE) : h \in 1 .. MaxSrcH }

Sizes == { OptSize(w, h) : w \in 1 .. MaxDstW, h \in 1 .. MaxDstH }

\* jtoa --size=WxH file    and    jtoa --size=WxH file1 file2
ResampleArgs ==
    { << sz, File(i) >> : sz \in Sizes, i \in Images }
    \cup { << sz, File(f), File(i) >> : sz \in Sizes, f \in FirstImages, i \in Images }

\* jtoa [sizing flags] file
SizingFlags ==
    { OptWidth(a) : a \in 0 .. MaxDim } \cup { OptHeight(a) : a \in 0 .. MaxDim }
    \cup { OptSize(1, 1), OptSize(0, 1), OptSize(1, 0) }

SizingImages ==
    { Img(1, 1, 1, "uniform", MAXJSAMPLE), Img(2, 1, 1, "uniform", MAXJSAMPLE),
      Img(5, 2, 1, "uniform", MAXJSAMPLE), Img(1, 5, 1, "uniform", MAXJSAMPLE),
      Img(1, 9, 1, "uniform", MAXJSAMPLE), Img(100, 50, 1, "uniform", MAXJSAMPLE) }

SizingArgs ==
    { fl \o << File(i) >> : fl \in SeqsUpTo(SizingFlags, MaxFlags), i \in SizingImages }

\* jtoa --size=1x1 followed by operands and options
BatchTokens ==
    { File(Img(1, 2, 1, "uniform", 100)), File(Img(1, 1, 1, "uniform", 100)),
      Stdin(Img(1, 2, 1, "uniform", 0)), NoFile, Flag("verbose"),
      Flag("help"), Flag("unknown"), OptChars(<< "#" >>) }

BatchArgs ==
    { << OptSize(1, 1) >> \o ops : ops \in SeqsUpTo(BatchTokens, MaxOperands) }

\* jtoa --size=WxH [-i] [--flipx] [--flipy] [--chars=..] file
Palettes == { << " ", "#" >>, << " ", ".", "#" >> }

RenderFlags ==
    { fi \o fx \o fy \o ch :
        fi \in { << >>, << Flag("invert") >> },
        fx \in { << >>, << Flag("flipx") >> },
        fy \in { << >>, << Flag("flipy") >> },
        ch \in { << >> } \cup { << OptChars(p) >> : p \in Palettes } }

RenderImages ==
    { Img(w, h, 1, "ramp", v) : w \in 1 .. MaxSrcW, h \in 2 .. MaxSrcH, v \in { 0, 10 } }
    \cup { Img(1, 2, 3, "uniform", v) : v \in { 0, MAXJSAMPLE } }

RenderArgs ==
    { << sz >> \o fl \o << File(i) >> :
        sz \in Sizes, fl \in RenderFlags, i \in RenderImages }

Init == \E args \in ResampleArgs : InitWith(args)
InitSizing == \E args \in SizingArgs : InitWith(args)
InitBatch == \E args \in BatchArgs : InitWith(args)
InitRender == \E args \in RenderArgs : InitWith(args)

Spec == Init /\ [][Next]_vars
SpecSizing == InitSizing /\ [][Next]_vars
SpecBatch == InitBatch /\ [][Next]_vars
SpecRender == InitRender /\ [][Next]_vars

(***************************************************************************)
(* What the claims speak of, stated from the header of the source image    *)
(* and the destination size with integer arithmetic only.                  *)
(***************************************************************************)
SrcW == jpg.img.output_width
SrcH == jpg.img.output_height
SrcC == jpg.img.output_components

\* floor(a/b + 1/2) for a >= 0, b > 0
RoundDiv(a, b) == (2 * a + b) \div (2 * b)

\* round(verticalRatio * s), verticalRatio = (h - 1) / (SrcH - 1), SrcH >= 2
RowOf(s, h) == RoundDiv((h - 1) * s, SrcH - 1)

\* the source column of destination column x: floor(x * SrcW / w)
ColOf(x, w) == (x * SrcW) \div w

RECURSIVE SampleSum(_, _, _)
SampleSum(s, col, c) ==
    IF c = 0 THEN 0 ELSE SampleSum(s, col, c - 1) + Sample(jpg.img, s, col, c - 1)

RECURSIVE RowsSum(_, _)
RowsSum(S, col) ==
    IF S = { } THEN 0
    ELSE LET s == CHOOSE t \in S : TRUE
         IN  SampleSum(s, col, SrcC) + RowsSum(S \ { s }, col)

\* the arithmetic mean over the source rows S of the intensity at column col
MeanIntensity(S, col) == Rat(RowsSum(S, col), MAXJSAMPLE * SrcC * Cardinality(S))

Cell(r, x) == image.pixel[r * image.width + x + 1]

\* all source rows are consumed and normalize has run
Normalized == pc = "print"

\* the source rows that map to destination row r
RowsMappingTo(r) == { s \in 0 .. SrcH - 1 : RowOf(s, image.height) = r }

\* the source rows the loop of process_scanline adds to destination row r
\* when the cursor starts at 0: row s is added to every row from the row of
\* s - 1 (0 for the first) to its own
RowsAddedTo(r) ==
    { s \in 0 .. SrcH - 1 :
        /\ (IF s = 0 THEN 0 ELSE RowOf(s - 1, image.height)) <= r
        /\ r <= RowOf(s, image.height) }

\* every image of the batch has at least two rows
TwoRowsEach ==
    \A k \in 1 .. Len(argv) :
        argv[k].t \in { "file", "stdin" } => argv[k].img.output_height >= 2

(***************************************************************************)
(* C1: the cursor lasty is 0 whenever the first source row of an image is  *)
(* about to be consumed, for every image of a batch, so that this row is   *)
(* accumulated into destination row 0.  Stated for batches of images of at *)
(* least two rows, where no conversion in process_scanline is undefined.   *)
(* The code keeps lasty in a static that decompress never resets.          *)
(***************************************************************************)
C1_CursorZeroAtEveryImage ==
    (TwoRowsEach /\ pc = "scan" /\ jpg.output_scanline = 0) => lasty = 0

(***************************************************************************)
(* C2: for a uniform source image of samples v, of any size >= 1x1, and    *)
(* any destination size >= 1x1, every cell equals v/255 once all rows are  *)
(* consumed and normalize has run.  The code leaves cells at 0 for a       *)
(* source image one row high.                                              *)
(***************************************************************************)
C2_UniformImageGivesUniformGrid ==
    ( /\ Normalized
      /\ jpg.img.kind = "uniform"
      /\ image.width >= 1 /\ image.height >= 1 )
    => \A r \in 0 .. image.height - 1 : \A x \in 0 .. image.width - 1 :
          Cell(r, x) = Rat(jpg.img.v, MAXJSAMPLE)

(***************************************************************************)
(* C8: downsampling from a cursor of 0, as claimed: rowCounts[r] is the    *)
(* number of source rows s with round(verticalRatio*s) = r and each cell   *)
(* is the mean over exactly those rows.                                    *)
(***************************************************************************)
Downsampling ==
    /\ Normalized
    /\ hist.lasty0 = 0
    /\ image.width >= 1 /\ image.height >= 1
    /\ image.height < SrcH

C8_BoxFilterOfMappedRows ==
    Downsampling =>
      \A r \in 0 .. image.height - 1 :
        /\ image.yadds[r + 1] = Cardinality(RowsMappingTo(r))
        /\ \A x \in 0 .. image.width - 1 :
             Cell(r, x) = MeanIntensity(RowsMappingTo(r), ColOf(x, image.width))

(***************************************************************************)
(* C8, amended: rowCounts[r] is the number of source rows s with           *)
(* round(verticalRatio*(s-1)) <= r <= round(verticalRatio*s) (0 in place   *)
(* of the lower bound for s = 0), that is the rows that map to r and, for  *)
(* r below the last row, the first row that maps to r+1; each cell is the  *)
(* mean over exactly those rows.                                           *)
(***************************************************************************)
C8_BoxFilterOfAddedRows ==
    Downsampling =>
      \A r \in 0 .. image.height - 1 :
        /\ image.yadds[r + 1] = Cardinality(RowsAddedTo(r))
        /\ RowsAddedTo(r) =
             RowsMappingTo(r) \cup
               { s \in 1 .. SrcH - 1 :
                   RowOf(s - 1, image.height) = r /\ RowOf(s, image.height) = r + 1 }
        /\ \A x \in 0 .. image.width - 1 :
             Cell(r, x) = MeanIntensity(RowsAddedTo(r), ColOf(x, image.width))

\* a destination row below the last one has averaged a row that maps to the next
C8_Witness ==
    /\ Downsampling
    /\ image.height >= 2
    /\ jpg.img.kind = "ramp"
    /\ image.yadds[1] = Cardinality(RowsMappingTo(0)) + 1
    /\ Cardinality(RowsMappingTo(0)) >= 2

(***************************************************************************)
(* C9: upsampling from a cursor of 0, as claimed: every destination row    *)
(* has rowCounts[r] = 1 and holds the intensity of exactly one source row. *)
(***************************************************************************)
Upsampling ==
    /\ Normalized
    /\ hist.lasty0 = 0
    /\ image.width >= 1
    /\ SrcH >= 2
    /\ image.height > SrcH

C9_EveryRowOneSourceRow ==
    Upsampling =>
      \A r \in 0 .. image.height - 1 :
        /\ image.yadds[r + 1] = 1
        /\ \E s \in 0 .. SrcH - 1 : \A x \in 0 .. image.width - 1 :
             Cell(r, x) = MeanIntensity({ s }, ColOf(x, image.width))

(***************************************************************************)
(* C9, amended: a destination row r = round(verticalRatio*s) of a source   *)
(* row s below the last has rowCounts[r] = 2 and holds the sum of source   *)
(* rows s and s+1 (their mean once normalized); every other destination    *)
(* row has rowCounts[r] = 1 and holds the intensity of one source row, the *)
(* first s with round(verticalRatio*s) >= r.                               *)
(***************************************************************************)
C9_ReplicationWithSharedRows ==
    Upsampling =>
      \A r \in 0 .. image.height - 1 :
        LET first == CHOOSE s \in 0 .. SrcH - 1 :
                       /\ RowOf(s, image.height) >= r
                       /\ \A t \in 0 .. s - 1 : RowOf(t, image.height) < r
            shared == first < SrcH - 1 /\ RowOf(first, image.height) = r
            from == IF shared THEN { first, first + 1 } ELSE { first }
        IN  /\ image.yadds[r + 1] = (IF shared THEN 2 ELSE 1)
            /\ \A x \in 0 .. image.width - 1 :
                 Cell(r, x) = MeanIntensity(from, ColOf(x, image.width))

\* a replicated row with count 1 next to a row shared by two source rows
C9_Witness ==
    /\ Upsampling
    /\ jpg.img.kind = "ramp"
    /\ image.yadds[1] = 2
    /\ \E r \in 1 .. image.height : image.yadds[r] = 1

(***************************************************************************)
(* C10: for every source image >= 1x1, also one row high, and every        *)
(* destination grid >= 1x1, the resize ratios are computed without a       *)
(* division by zero, every source row maps to a destination row in         *)
(* [0, height-1], no write of process_scanline leaves the arrays, and      *)
(* every columnLookup[x] plus the component count stays within one source  *)
(* row.  The code divides by output_height - 1 = 0 for a one-row image.    *)
(***************************************************************************)
C10_RatiosAndIndicesInRange ==
    ( /\ hist.allocated
      /\ image.width >= 1 /\ image.height >= 1 )
    => /\ IsFinite(image.resize_y)
       /\ IsFinite(image.resize_x)
       /\ \A s \in 0 .. SrcH - 1 : DestRow(image, s + 1) \subseteq 0 .. image.height - 1
       /\ ~hist.outside
       /\ \A x \in 1 .. image.width :
            /\ image.lookup_resx[x] >= 0
            /\ image.lookup_resx[x] + SrcC <= SrcW * SrcC

(***************************************************************************)
(* C3: calc_aspect_ratio ends with the derived dimension >= 1 whenever the *)
(* source is at least 1x1 and the fixed dimension at least 1.  Deriving    *)
(* the height, height = floor(0.5*width*SrcH/SrcW + 0.5); deriving the     *)
(* width, width = floor(2*height*SrcW/SrcH + 0.5); the fixed dimension is  *)
(* the requested one raised by 1 until the derived one is not 0.  A source *)
(* of 100x50 and a width of 78 give a height of 20, the width unchanged.   *)
(***************************************************************************)
AspectDone == pc \in { "scan", "print", "finish" }
DeriveHeight == auto_width = 0 /\ auto_height # 0
DeriveWidth == auto_width # 0 /\ auto_height = 0

\* floor(0.5 * w * SrcH / SrcW + 0.5)
HeightFor(w) == (w * SrcH + SrcW) \div (2 * SrcW)
\* floor(2 * h * SrcW / SrcH + 0.5)
WidthFor(h) == (4 * h * SrcW + SrcH) \div (2 * SrcH)

C3_DerivedDimensionAtLeastOne ==
    /\ (AspectDone /\ DeriveHeight /\ hist.reqw >= 1) =>
          /\ height >= 1
          /\ height = HeightFor(width)
          /\ width >= hist.reqw
          /\ \A w \in hist.reqw .. width - 1 : HeightFor(w) = 0
    /\ (AspectDone /\ DeriveWidth /\ hist.reqh >= 1) =>
          /\ width >= 1
          /\ width = WidthFor(height)
          /\ height >= hist.reqh
          /\ \A h \in hist.reqh .. height - 1 : WidthFor(h) = 0
    /\ (AspectDone /\ DeriveHeight /\ hist.reqw = 78 /\ SrcW = 100 /\ SrcH = 50) =>
          (width = 78 /\ height = 20)

\* the fixed width was raised more than once before the height became 1
C3_Witness ==
    /\ AspectDone
    /\ DeriveHeight
    /\ hist.reqw >= 1
    /\ width > hist.reqw + 1
    /\ height = 1

(***************************************************************************)
(* C4: for every combination and order of --width, --height and --size, a  *)
(* dimension < 1 that is used as given makes parse_options fail, and the   *)
(* process exits with 1 before any image is decoded; whenever the grid is  *)
(* allocated its width and height are >= 1.  The code skips the test when  *)
(* both counters are non-zero.                                             *)
(***************************************************************************)
ParsedOk == pc \notin { "parse", "return_parse" }

C4_GivenDimensionsAtLeastOne ==
    /\ ParsedOk => /\ (~DeriveWidth => width >= 1)
                   /\ (~DeriveHeight => height >= 1)
    /\ hist.allocated => (image.width >= 1 /\ image.height >= 1)

(***************************************************************************)
(* C5: for a palette of length L >= 2, either value of invert and a cell   *)
(* intensity in [0, 1], the palette index print_image uses is in           *)
(* [0, L-1]; intensity 0 with invert unset selects index L-1.              *)
(***************************************************************************)
InUnitInterval(q) == q[2] > 0 /\ 0 <= q[1] /\ q[1] <= q[2]

\* the intensities k/d of small denominator
MaxDenominator == 6
Fractions == { Rat(k, d) : k \in 0 .. MaxDenominator, d \in 1 .. MaxDenominator }

RECURSIVE OperandsUpTo(_)
OperandsUpTo(k) ==
    IF k = 0 THEN << >>
    ELSE IF IsOperand(argv[k]) THEN Append(OperandsUpTo(k - 1), k)
    ELSE OperandsUpTo(k - 1)

PrintedArgs == [ j \in 1 .. Len(printed) |-> printed[j].arg ]

Min(a, b) == IF a < b THEN a ELSE b

C6_OpenFailureStopsBatch ==
    ParsedOk =>
      /\ \A k \in 1 .. Min(n - 1, Len(argv)) : argv[k].t # "nofile"
      /\ PrintedArgs = OperandsUpTo(Min(IF pc = "finish" THEN n ELSE n - 1, Len(argv)))
      /\ (n <= Len(argv) /\ argv[n].t = "nofile") =>
            /\ pc \in { "main", "return" }
            /\ jpg = NoJpg
            /\ pc = "return" => status = 1

\* stopped at an operand with one printed before it and one left after it
C6_Witness ==
    /\ pc = "return"
    /\ status = 1
    /\ n < Len(argv)
    /\ argv[n].t = "nofile"
    /\ Len(printed) >= 1
    /\ argv[n + 1].t = "file"

(***************************************************************************)
(* C7: print_image leaves the grid as it is; with flipx the output is the  *)
(* unflipped output with every line reversed, with flipy the unflipped     *)
(* output with the lines in reverse order; the same flip applied twice     *)
(* gives the unflipped output.                                             *)
(***************************************************************************)
Reverse(q) == [ k \in 1 .. Len(q) |-> q[Len(q) + 1 - k] ]
FlipX(f, lines) == IF f = 0 THEN lines ELSE [ k \in 1 .. Len(lines) |-> Reverse(lines[k]) ]
FlipY(f, lines) == IF f = 0 THEN lines ELSE Reverse(lines)

Printed == pc = "finish"
LastLines == printed[Len(printed)].lines
\* the output without flips: line y, column x shows cell (y, x)
Unflipped ==
    [ y \in 1 .. image.height |->
        [ x \in 1 .. image.width |->
            PaletteChar(ascii_palette,
                        PaletteIndex(Cell(y - 1, x - 1), Len(ascii_palette) - 1,
                                     invert)) ] ]

C7_FlipsReverseTheOutput ==
    Printed =>
      /\ image = hist.shown
      /\ LastLines = FlipY(flipy, FlipX(flipx, Unflipped))
      /\ FlipX(flipx, FlipX(flipx, LastLines)) = LastLines
      /\ FlipY(flipy, FlipY(flipy, LastLines)) = LastLines
      /\ FlipX(1, FlipX(1, Unflipped)) = Unflipped
      /\ FlipY(1, FlipY(1, Unflipped)) = Unflipped

\* both flips set, on a grid whose output both flips change
C7_Witness ==
    /\ Printed
    /\ flipx = 1 /\ flipy = 1
    /\ image.width >= 2 /\ image.height >= 2
    /\ FlipX(1, Unflipped) # Unflipped
    /\ FlipY(1, Unflipped) # Unflipped
    /\ LastLines # Unflipped

=============================================================================
